---- MODULE Spec2Model ----
(***************************************************************************)
(* CallPermissionsModule (call_permissions_module.py): a Synapse module    *)
(* that, for every new room, waits until the room's m.room.power_levels    *)
(* state event exists, rewrites it so that the call event types are        *)
(* sendable at the configured level, sends the new state event and reads   *)
(* it back once.                                                           *)
(*                                                                         *)
(* The model follows one room.  The host (Synapse) is the environment: it  *)
(* delivers events to the check_event_allowed callback, creates and may    *)
(* purge the room's power levels, answers get_room_state, accepts or       *)
(* rejects state events and runs the reactor's delayed calls.  Every await *)
(* on the host is a step of its own; the code between two awaits is one    *)
(* atomic step.                                                            *)
(***************************************************************************)
EXTENDS Integers, Sequences, FiniteSets, TLC

VARIABLES
    enable_auto_call_permissions,  \* self._enable_auto_call_permissions
    call_permission_level,         \* self._call_permission_level
    also_set_events_default,       \* self._also_set_events_default
    room_state,     \* what get_room_state returns: (type, state_key) -> content
    purged,         \* the host has purged the room
    reactorCalls,   \* the reactor's pending delayed calls (callLater)
    attempts,       \* one record per started reconciliation attempt
    handled         \* one record per event the host handed to the callback

vars == <<enable_auto_call_permissions, call_permission_level,
          also_set_events_default, room_state, purged, reactorCalls,
          attempts, handled>>

config == <<enable_auto_call_permissions, call_permission_level,
            also_set_events_default>>

----------------------------------------------------------------------------
(* Bounds of the model *)

\* number of events the host hands to the callback
MaxEvents == 2

----------------------------------------------------------------------------
(* Program constants *)

\* max_attempts
MaxAttempts == 6
\* the delay of the first delayed call, in seconds
InitialDelay == 3
\* the delay of the verification call, in seconds
VerifyDelay == 1
\* the power a user needs to be picked as sender
AdminPower == 50

None == "None"
Create == "m.room.create"
PowerLevels == "m.room.power_levels"

\* config.get("excluded_room_types", ["m.space"])
ExcludedRoomTypes == {"m.space"}

\* call_events, in the order of the list
CallEvents ==
    << "m.call.invite", "m.call.answer", "m.call.hangup", "m.call.candidates",
       "m.call.select_answer", "m.call.reject", "m.call.negotiate",
       "org.matrix.msc3401.call", "org.matrix.msc3401.call.member",
       "m.call.member", "im.vector.modular.widgets" >>

CallEventSet == {CallEvents[i] : i \in 1..Len(CallEvents)}

\* checks, the message types _verify_permissions reads back
Checks == <<"m.call.invite", "m.call.member", "org.matrix.msc3401.call.member">>

----------------------------------------------------------------------------
(* Inputs: configurations, events and power-level contents *)

Levels == {0, 50}

Creator == "@creator"

EmptyDict == [k \in {} |-> 0]

AllCallAt(level) == [k \in CallEventSet |-> level]

\* Power-level contents a new room may get.  users is an ordered mapping
\* (a Python dict keeps insertion order): a sequence of <<user, power>>.
InitialMaps ==
    { [users |-> << <<Creator, 100>> >>, users_default |-> 0,
       events |-> [k \in {"m.room.name", "m.call.invite"} |->
                      IF k = "m.room.name" THEN 50 ELSE 0],
       events_default |-> 0, state_default |-> 50],
      [users |-> << <<"@B", 10>>, <<"@C", 50>>, <<"@A", 100>> >>,
       events |-> EmptyDict, events_default |-> 50, state_default |-> 50],
      [users |-> << <<"@B", 10>> >>, events |-> AllCallAt(0),
       events_default |-> 0],
      [state_default |-> 50],
      [users |-> <<>>,
       events |-> [k \in CallEventSet \cup {"m.room.name"} |-> 50],
       events_default |-> 100] }

\* The events the host hands to the callback: room creations of every
\* declared type, direct or not, and an event of another type.
EventInputs ==
    [type : {Create}, room_type : {None, "m.space"},
     is_direct : BOOLEAN, sender : {Creator}]
    \cup [type : {"m.room.message"}, room_type : {None},
          is_direct : {FALSE}, sender : {Creator}]

----------------------------------------------------------------------------
(* Pure helpers *)

\* dict.get(key, default)
Get(d, k, default) == IF k \in DOMAIN d THEN d[k] ELSE default

\* ShouldExcludeRoom with direct-message rooms excluded as well
ShouldExcludeRoomDirect(event) ==
    IF event.room_type \in ExcludedRoomTypes THEN TRUE
    ELSE IF event.is_direct THEN TRUE
    ELSE FALSE

\* _should_exclude_room
ShouldExcludeRoom(event) ==
    IF event.room_type \in ExcludedRoomTypes THEN TRUE
    ELSE IF event.is_direct THEN FALSE
    ELSE FALSE

\* CheckEventAllowedResult without the except clause: the exception leaves
\* the callback and the host gets no verdict
CheckEventAllowedResultUncaught(fault) ==
    IF fault THEN [verdict |-> <<FALSE, None>>, raised |-> TRUE]
    ELSE [verdict |-> <<TRUE, None>>, raised |-> FALSE]

\* what _check_event_allowed hands back to the host: the verdict and whether
\* an exception leaves the callback
CheckEventAllowedResult(fault) ==
    IF fault THEN [verdict |-> <<TRUE, None>>, raised |-> FALSE]
    ELSE [verdict |-> <<TRUE, None>>, raised |-> FALSE]

\* WaitTime with the exponent one too high
WaitTimeNextPower(attempt) == 2 ^ (attempt + 1)

\* wait_time = 2 ** attempt
WaitTime(attempt) == 2 ^ attempt

\* new_power_levels["events"] as a plain dict ({} when the key is missing)
EventsOf(content) == Get(content, "events", EmptyDict)

\* UpdatedEvents that sets only the call events already listed
UpdatedEventsExistingOnly(events, level) ==
    [k \in DOMAIN events |-> IF k \in CallEventSet THEN level ELSE events[k]]

\* UpdatedEvents that keeps the call events only
UpdatedEventsCallOnly(events, level) == [k \in CallEventSet |-> level]

\* updated_events: every existing entry copied, every call event set to level
UpdatedEvents(events, level) ==
    [k \in DOMAIN events \cup CallEventSet |->
        IF k \in CallEventSet THEN level ELSE events[k]]

\* EventChanges that records every call event, changed or not
EventChangesAll(events, level) == CallEventSet

\* the call events recorded in changes: old_level ("not set" when the key
\* is missing) differs from the level
EventChanges(events, level) ==
    {k \in CallEventSet : k \notin DOMAIN events \/ events[k] # level}

\* DefaultChange with >= for >
DefaultChangeAtOrAbove(content, level, also) ==
    also /\ Get(content, "events_default", 0) >= level

\* DefaultChange without the comparison: events_default is always set
DefaultChangeAlways(content, level, also) == also

\* whether events_default is lowered: also_set_events_default and
\* old_default > self._call_permission_level
DefaultChange(content, level, also) ==
    also /\ Get(content, "events_default", 0) > level

\* changes, as the set of keys changed
Changes(content, level, also) ==
    EventChanges(EventsOf(content), level)
    \cup (IF DefaultChange(content, level, also) THEN {"events_default"} ELSE {})

\* new_power_levels when it is handed to _send_state_event
NewPowerLevels(content, level, also) ==
    LET withEvents ==
            [k \in DOMAIN content \cup {"events"} |->
                IF k = "events" THEN UpdatedEvents(EventsOf(content), level)
                ELSE content[k]]
    IN  IF DefaultChange(content, level, also)
        THEN [k \in DOMAIN withEvents \cup {"events_default"} |->
                IF k = "events_default" THEN level ELSE withEvents[k]]
        ELSE withEvents

\* _find_admin_user: the first user of the mapping with power >= 50
RECURSIVE FirstAdmin(_, _)
FirstAdmin(users, i) ==
    IF i > Len(users) THEN None
    ELSE IF users[i][2] >= AdminPower THEN users[i][1]
    ELSE FirstAdmin(users, i + 1)

\* FindAdminUser that returns the first user whatever its power
FindAdminUserFirst(power_levels) ==
    LET users == Get(power_levels, "users", <<>>)
    IN  IF Len(users) = 0 THEN None ELSE users[1][1]

FindAdminUser(power_levels) == FirstAdmin(Get(power_levels, "users", <<>>), 1)

\* admin_user as passed to _send_state_event
SenderFor(power_levels, sender) ==
    IF FindAdminUser(power_levels) = None THEN sender
    ELSE FindAdminUser(power_levels)

\* the result _verify_permissions logs for a content it read
VerifyResult(content, level) ==
    LET events == Get(content, "events", EmptyDict)
        events_default == Get(content, "events_default", 0)
    IN  IF \A i \in 1..Len(Checks) : Get(events, Checks[i], events_default) = level
        THEN "ok" ELSE "mismatch"

----------------------------------------------------------------------------
(* State *)

NoContent == EmptyDict

NewAttempt(event) ==
    [ creator  |-> event.sender,
      pc       |-> "WAITING_READY",
      attempt  |-> 0,
      pollLog  |-> <<>>,
      delays   |-> <<InitialDelay>>,
      calls    |-> 1,
      setupRead |-> None,
      patched  |-> FALSE,
      read     |-> NoContent,
      changes  |-> {},
      content  |-> NoContent,
      sender   |-> None,
      writeLog |-> <<>>,
      sendCalls |-> 0,
      landed   |-> 0,
      verify   |-> None,
      outcome  |-> None ]

Init ==
    /\ enable_auto_call_permissions \in BOOLEAN
    /\ call_permission_level \in Levels
    /\ also_set_events_default \in BOOLEAN
    /\ room_state = EmptyDict
    /\ purged = FALSE
    /\ reactorCalls = {}
    /\ attempts = <<>>
    /\ handled = <<>>

PowerLevelsPresent == PowerLevels \in DOMAIN room_state

----------------------------------------------------------------------------
(* The host *)

\* the host stores the new room's power levels
HostCreatesPowerLevels ==
    /\ ~PowerLevelsPresent
    /\ ~purged
    /\ \E m \in InitialMaps : room_state' = [k \in {PowerLevels} |-> m]
    /\ UNCHANGED <<config, purged, reactorCalls, attempts, handled>>

\* the host purges the room: its state is gone for good
HostPurgesRoom ==
    /\ PowerLevelsPresent
    /\ room_state' = EmptyDict
    /\ purged' = TRUE
    /\ UNCHANGED <<config, reactorCalls, attempts, handled>>

----------------------------------------------------------------------------
(* _check_event_allowed *)

\* StartsAttempt without the test of the event type
StartsAttemptAnyType(event, fault) ==
    /\ enable_auto_call_permissions
    /\ ~fault
    /\ ~ShouldExcludeRoom(event)

\* whether the callback reaches reactor.callLater: a room creation, the
\* module enabled, the room not excluded, and nothing raised on the way
StartsAttempt(event, fault) ==
    /\ event.type = Create
    /\ enable_auto_call_permissions
    /\ ~fault
    /\ ~ShouldExcludeRoom(event)

CheckEventAllowed ==
    /\ Len(handled) < MaxEvents
    /\ \E event \in EventInputs, fault \in BOOLEAN :
        LET result == CheckEventAllowedResult(fault)
            starts == StartsAttempt(event, fault)
            id == Len(attempts) + 1
        IN  \* only the body of the two ifs can raise
            /\ fault => (event.type = Create /\ enable_auto_call_permissions)
            /\ handled' = Append(handled,
                  [event |-> event, fault |-> fault,
                   verdict |-> result.verdict, raised |-> result.raised,
                   attempt |-> IF starts THEN id ELSE 0])
            /\ IF starts
               THEN /\ attempts' = Append(attempts, NewAttempt(event))
                    /\ reactorCalls' = reactorCalls \cup
                          {[serial |-> 1, id |-> id, fn |-> "retry",
                            delay |-> InitialDelay, attempt |-> 0]}
               ELSE UNCHANGED <<attempts, reactorCalls>>
    /\ UNCHANGED <<config, room_state, purged>>

----------------------------------------------------------------------------
(* _setup_call_permissions_with_retry *)

\* what an await of get_room_state can give: the state, or an exception
ReadOutcomes == {"state", "fault"}

\* what a read shows of the power levels: an exception, the state event,
\* or a state without it
PollObservation(r) ==
    IF r = "fault" THEN "fault"
    ELSE IF PowerLevelsPresent THEN "present"
    ELSE "absent"

\* RetryAllowed off by one
RetryAllowedOffByOne(attempt) == attempt < MaxAttempts

\* whether a readiness poll that found no power levels schedules another
RetryAllowed(attempt) == attempt < MaxAttempts - 1

\* RetryBranch with an exception of the read taken for "not ready"
RetryBranchFaultAsAbsent(obs, attempt) ==
    IF obs = "present" THEN "ready"
    ELSE IF RetryAllowed(attempt) THEN "retry"
    ELSE "give_up"

\* the path the coroutine takes after its read: the except clause, the
\* call of _setup_call_permissions, another delayed call, or giving up
RetryBranch(obs, attempt) ==
    IF obs = "fault" THEN "error"
    ELSE IF obs = "present" THEN "ready"
    ELSE IF RetryAllowed(attempt) THEN "retry"
    ELSE "give_up"

\* NextAttempt that passes the counter on unchanged
NextAttemptSame(attempt) == attempt

\* NextAttempt that skips a value
NextAttemptSkip(attempt) == attempt + 2

\* the attempt argument of the next delayed call
NextAttempt(attempt) == attempt + 1

\* A delayed call of _setup_call_permissions_with_retry(room_id, creator,
\* attempt) runs: get_room_state, then the code up to the next await.
SetupCallPermissionsWithRetry ==
    \E call \in reactorCalls, r \in ReadOutcomes :
        LET a == attempts[call.id]
            obs == PollObservation(r)
            branch == RetryBranch(obs, call.attempt)
        IN
        /\ call.fn = "retry"
        /\ IF branch = "error"
           THEN \* except Exception: logged
                /\ attempts' = [attempts EXCEPT ![call.id] =
                      [a EXCEPT !.pollLog = Append(@, obs),
                                !.pc = "FAILED", !.outcome = "retry_error"]]
                /\ reactorCalls' = reactorCalls \ {call}
           ELSE IF branch = "ready"
           THEN \* the room is ready: _setup_call_permissions is awaited
                /\ attempts' = [attempts EXCEPT ![call.id] =
                      [a EXCEPT !.pollLog = Append(@, obs),
                                !.pc = "PATCHING"]]
                /\ reactorCalls' = reactorCalls \ {call}
           ELSE IF branch = "retry"
           THEN \* not ready: callLater(2 ** attempt, ... attempt + 1)
                /\ attempts' = [attempts EXCEPT ![call.id] =
                      [a EXCEPT !.pollLog = Append(@, obs),
                                !.attempt = NextAttempt(call.attempt),
                                !.calls = @ + 1,
                                !.delays = Append(@, WaitTime(call.attempt))]]
                /\ reactorCalls' = (reactorCalls \ {call}) \cup
                      {[serial |-> a.calls + 1, id |-> call.id, fn |-> "retry",
                        delay |-> WaitTime(call.attempt),
                        attempt |-> NextAttempt(call.attempt)]}
           ELSE \* never became ready
                /\ attempts' = [attempts EXCEPT ![call.id] =
                      [a EXCEPT !.pollLog = Append(@, obs),
                                !.pc = "FAILED", !.outcome = "never_ready"]]
                /\ reactorCalls' = reactorCalls \ {call}
        /\ UNCHANGED <<config, room_state, purged, handled>>

----------------------------------------------------------------------------
(* _setup_call_permissions *)

\* NoPowerLevelsFound that goes back to waiting for readiness
NoPowerLevelsRetries(a) ==
    [a EXCEPT !.setupRead = "absent", !.pc = "WAITING_READY"]

\* if not power_levels_event: logged, return
NoPowerLevelsFound(a) ==
    [a EXCEPT !.setupRead = "absent", !.pc = "FAILED",
              !.outcome = "no_power_levels"]

\* CacheAfterPatch when the patch works on the host's object itself
CacheAfterPatchInPlace(content, level, also) ==
    NewPowerLevels(content, level, also)

\* the content object of the host's state event after the patch was
\* computed: the patch works on copy.deepcopy(dict(content)) and on new
\* dicts, the host's object is not assigned to
CacheAfterPatch(content, level, also) == content

\* get_room_state returns; the patch is computed and, unless nothing
\* changes, handed to _send_state_event
SetupCallPermissions ==
    \E id \in 1..Len(attempts), r \in ReadOutcomes :
        LET a == attempts[id]
            obs == PollObservation(r)
            content == room_state[PowerLevels]
            level == call_permission_level
            also == also_set_events_default
        IN
        /\ a.pc = "PATCHING"
        /\ attempts' = [attempts EXCEPT ![id] =
              IF obs = "fault"
              THEN [a EXCEPT !.setupRead = obs, !.pc = "FAILED",
                             !.outcome = "setup_error"]
              ELSE IF obs = "absent"
              THEN NoPowerLevelsFound(a)
              ELSE IF Changes(content, level, also) = {}
              THEN [a EXCEPT !.setupRead = obs,
                             !.patched = TRUE, !.read = content,
                             !.content = NewPowerLevels(content, level, also),
                             !.pc = "NOOP", !.outcome = "already_correct"]
              ELSE [a EXCEPT !.setupRead = obs,
                             !.patched = TRUE, !.read = content,
                             !.changes = Changes(content, level, also),
                             !.content = NewPowerLevels(content, level, also),
                             !.sender = SenderFor(
                                 NewPowerLevels(content, level, also), a.creator),
                             !.pc = "SENDING"]]
        /\ room_state' =
              IF obs = "present"
              THEN [room_state EXCEPT ![PowerLevels] =
                       CacheAfterPatch(content, level, also)]
              ELSE room_state
        /\ UNCHANGED <<config, purged, reactorCalls, handled>>

----------------------------------------------------------------------------
(* _send_state_event *)

\* the event_dict handed to create_and_send_nonmember_event
PrimaryCall(a) ==
    [path |-> "primary", type |-> PowerLevels, state_key |-> "",
     sender |-> a.sender, content |-> a.content]

\* FallbackCall sent as the room's creator
FallbackCallAsCreator(a) ==
    [path |-> "fallback", type |-> PowerLevels, state_key |-> "",
     sender |-> a.creator, content |-> a.content]

\* the event_dict handed to create_and_send_event_into_room
FallbackCall(a) ==
    [path |-> "fallback", type |-> PowerLevels, state_key |-> "",
     sender |-> a.sender, content |-> a.content]

\* RoomAfterWrite when only the events field of the content lands
RoomAfterPartialWrite(state, call) ==
    [state EXCEPT ![PowerLevels] =
        [k \in DOMAIN state[PowerLevels] \cup {"events"} |->
            IF k = "events" THEN call.content.events
            ELSE state[PowerLevels][k]]]

\* the room state once the host has accepted the state event: its content
\* replaces the power levels as a whole
RoomAfterWrite(state, call) ==
    [state EXCEPT ![PowerLevels] = call.content]

\* what the attempt becomes when a write has landed: success is logged and
\* the verification is scheduled
AfterSuccess(a) == [a EXCEPT !.sendCalls = @ + 1, !.landed = @ + 1,
                             !.calls = @ + 1,
                             !.pc = "VERIFYING", !.outcome = "success"]

ScheduleVerify(id) ==
    reactorCalls' = reactorCalls \cup
          {[serial |-> attempts[id].calls + 1, id |-> id, fn |-> "verify",
            delay |-> VerifyDelay, attempt |-> attempts[id].attempt]}

\* create_and_send_nonmember_event returns or raises
SendStateEvent ==
    \E id \in 1..Len(attempts), ok \in BOOLEAN :
        LET a == attempts[id]
            logged == [a EXCEPT !.writeLog =
                          Append(@, [call |-> PrimaryCall(a), ok |-> ok])]
        IN
        /\ a.pc = "SENDING"
        \* the host accepts a state event only in a room that exists
        /\ ok => PowerLevelsPresent
        /\ IF ok
           THEN /\ room_state' = RoomAfterWrite(room_state, PrimaryCall(a))
                /\ attempts' = [attempts EXCEPT ![id] = AfterSuccess(logged)]
                /\ ScheduleVerify(id)
           ELSE /\ attempts' = [attempts EXCEPT ![id] =
                      [logged EXCEPT !.sendCalls = @ + 1, !.pc = "FALLBACK"]]
                /\ UNCHANGED <<room_state, reactorCalls>>
        /\ UNCHANGED <<config, purged, handled>>

\* the fallback: create_and_send_event_into_room returns or raises
SendStateEventFallback ==
    \E id \in 1..Len(attempts), ok \in BOOLEAN :
        LET a == attempts[id]
            logged == [a EXCEPT !.writeLog =
                          Append(@, [call |-> FallbackCall(a), ok |-> ok])]
        IN
        /\ a.pc = "FALLBACK"
        /\ ok => PowerLevelsPresent
        /\ IF ok
           THEN /\ room_state' = RoomAfterWrite(room_state, FallbackCall(a))
                /\ attempts' = [attempts EXCEPT ![id] = AfterSuccess(logged)]
                /\ ScheduleVerify(id)
           ELSE /\ attempts' = [attempts EXCEPT ![id] =
                      [logged EXCEPT !.sendCalls = @ + 1, !.pc = "FAILED",
                                     !.outcome = "send_failed"]]
                /\ UNCHANGED <<room_state, reactorCalls>>
        /\ UNCHANGED <<config, purged, handled>>

----------------------------------------------------------------------------
(* _verify_permissions *)

\* AfterVerify that sends the content again unless everything matched
AfterVerifyResubmits(a, result) ==
    IF result = "ok" THEN [a EXCEPT !.pc = "DONE", !.verify = result]
    ELSE [a EXCEPT !.pc = "SENDING", !.verify = result]

\* the attempt once _verify_permissions has returned: the result is logged
AfterVerify(a, result) == [a EXCEPT !.pc = "DONE", !.verify = result]

VerifyPermissions ==
    \E call \in reactorCalls, r \in ReadOutcomes :
        LET a == attempts[call.id]
            obs == PollObservation(r)
        IN
        /\ call.fn = "verify"
        /\ reactorCalls' = reactorCalls \ {call}
        /\ attempts' = [attempts EXCEPT ![call.id] =
              AfterVerify(a,
                  IF obs = "fault" THEN "error"
                  ELSE IF obs = "absent" THEN "no_power_levels"
                  ELSE VerifyResult(room_state[PowerLevels],
                                    call_permission_level))]
        /\ UNCHANGED <<config, room_state, purged, handled>>

----------------------------------------------------------------------------

Next ==
    \/ HostCreatesPowerLevels
    \/ HostPurgesRoom
    \/ CheckEventAllowed
    \/ SetupCallPermissionsWithRetry
    \/ SetupCallPermissions
    \/ SendStateEvent
    \/ SendStateEventFallback
    \/ VerifyPermissions

Spec == Init /\ [][Next]_vars

----------------------------------------------------------------------------
(* Vocabulary of the properties *)

Attempts == 1..Len(attempts)

Handled == 1..Len(handled)

\* the pending delayed calls of an attempt
CallsOf(id) == {c \in reactorCalls : c.id = id}

\* every readiness poll of the attempt so far found no power levels
AllAbsent(a) == \A i \in 1..Len(a.pollLog) : a.pollLog[i] = "absent"

Terminal(a) == a.pc \in {"FAILED", "NOOP", "DONE"}

\* the delays of an attempt whose polls never find the power levels: the
\* callback's 3 seconds, then 2 ** attempt for attempt 0..4
BackoffDelays ==
    <<InitialDelay>> \o [i \in 1..(MaxAttempts - 1) |-> 2 ^ (i - 1)]

\* events_default as the code reads it: 0 when the key is missing
EventsDefault(content) == Get(content, "events_default", 0)

\* every call event type has its own entry, equal to level
AllCallExplicit(content, level) ==
    \A k \in CallEventSet :
        k \in DOMAIN EventsOf(content) /\ EventsOf(content)[k] = level

\* no call event type has an entry of its own
NoCallExplicit(content) == DOMAIN EventsOf(content) \cap CallEventSet = {}

----------------------------------------------------------------------------
(* C1: while every readiness poll of an attempt finds the power levels     *)
(* absent, the attempt makes at most 6 polls (attempt counter 0..5) and    *)
(* never calls the state writer; it is either still waiting, with fewer    *)
(* than 6 polls made and its one retry call pending, or it has made        *)
(* exactly 6 polls, has nothing scheduled and is FAILED.                   *)
C1_BackoffBound ==
    \A id \in Attempts :
        LET a == attempts[id] IN
        AllAbsent(a) =>
            /\ a.sendCalls = 0 /\ a.landed = 0 /\ ~a.patched
            /\ \/ /\ a.pc = "WAITING_READY"
                  /\ Len(a.pollLog) < MaxAttempts
                  /\ a.attempt = Len(a.pollLog)
                  /\ Cardinality(CallsOf(id)) = 1
               \/ /\ a.pc = "FAILED"
                  /\ a.outcome = "never_ready"
                  /\ Len(a.pollLog) = MaxAttempts
                  /\ a.attempt = MaxAttempts - 1
                  /\ CallsOf(id) = {}

C1_Witness ==
    \E id \in Attempts :
        /\ AllAbsent(attempts[id])
        /\ Len(attempts[id].pollLog) = 6
        /\ attempts[id].pc = "FAILED"

(* C2, as the specification states it: an attempt whose polls all found    *)
(* the power levels absent has scheduled the delays 1, 2, 4, 8, 16, 32.    *)
C2_Original ==
    \A id \in Attempts :
        LET a == attempts[id] IN
        (AllAbsent(a) /\ a.pc = "FAILED") => a.delays = <<1, 2, 4, 8, 16, 32>>

(* C2, amended: while every poll of an attempt finds the power levels      *)
(* absent, the delays scheduled before its polls are, in order, 3 (the     *)
(* callback's first call), then 1, 2, 4, 8, 16 (2 ** attempt for attempt   *)
(* 0..4); the i-th delay precedes the i-th poll, so 16 precedes the 6th    *)
(* and final poll and no delay of 32 is ever scheduled.                    *)
C2_BackoffDelays ==
    \A id \in Attempts :
        LET a == attempts[id] IN
        AllAbsent(a) =>
            /\ Len(a.delays) <= MaxAttempts
            /\ a.delays = SubSeq(BackoffDelays, 1, Len(a.delays))
            /\ Len(a.delays) =
                  IF a.pc = "WAITING_READY" THEN Len(a.pollLog) + 1
                  ELSE Len(a.pollLog)
            /\ \A c \in CallsOf(id) : c.delay = a.delays[Len(a.delays)]
            /\ a.pc = "FAILED" => a.delays = <<3, 1, 2, 4, 8, 16>>

C2_Witness ==
    \E id \in Attempts :
        /\ AllAbsent(attempts[id])
        /\ attempts[id].pc = "FAILED"
        /\ attempts[id].delays = <<3, 1, 2, 4, 8, 16>>

(* C3, as the specification states it: when the map read has               *)
(* events_default equal to the level and no entry for any call event type, *)
(* no change is recorded, nothing is sent and the attempt ends NOOP.       *)
C3_Original ==
    \A id \in Attempts :
        LET a == attempts[id] IN
        (a.patched /\ EventsDefault(a.read) = call_permission_level
                   /\ NoCallExplicit(a.read))
            => (a.changes = {} /\ a.pc = "NOOP" /\ a.sendCalls = 0)

(* C3, amended: when the map read has events_default equal to the level    *)
(* and an entry equal to the level for every call event type, no change is *)
(* recorded, nothing is sent and the attempt ends NOOP.                    *)
C3_AlreadyCorrect ==
    \A id \in Attempts :
        LET a == attempts[id] IN
        (a.patched /\ EventsDefault(a.read) = call_permission_level
                   /\ AllCallExplicit(a.read, call_permission_level))
            => /\ a.changes = {}
               /\ a.pc = "NOOP"
               /\ a.sendCalls = 0 /\ a.landed = 0
               /\ CallsOf(id) = {}

C3_Witness ==
    \E id \in Attempts :
        /\ attempts[id].patched
        /\ EventsDefault(attempts[id].read) = 0
        /\ call_permission_level = 0
        /\ AllCallExplicit(attempts[id].read, 0)
        /\ attempts[id].pc = "NOOP"

(* C4: idempotence.  The map a landed write put in the room gives, patched *)
(* again under the same configuration, no change and the same map; and an  *)
(* attempt that reads the map an earlier attempt wrote (or the map an      *)
(* earlier attempt found already correct) ends NOOP without a write,       *)
(* leaving that map in place.                                              *)
C4_Idempotence ==
    \A id \in Attempts :
        LET a == attempts[id] IN
        (a.patched /\ (a.landed > 0 \/ a.pc = "NOOP")) =>
            /\ Changes(a.content, call_permission_level,
                       also_set_events_default) = {}
            /\ NewPowerLevels(a.content, call_permission_level,
                              also_set_events_default) = a.content
            /\ \A id2 \in Attempts :
                  LET b == attempts[id2] IN
                  (b.patched /\ b.read = a.content) =>
                      /\ b.pc = "NOOP"
                      /\ b.sendCalls = 0 /\ b.landed = 0
                      /\ b.content = a.content

C4_Witness ==
    \E id, id2 \in Attempts :
        /\ id # id2
        /\ attempts[id].landed = 1
        /\ attempts[id2].patched
        /\ attempts[id2].read = attempts[id].content
        /\ attempts[id2].pc = "NOOP"
        /\ PowerLevelsPresent
        /\ room_state[PowerLevels] = attempts[id].content

(* C5: monotonic default lowering.  In every map handed to the writer,     *)
(* events_default is the level when also_set_events_default is on and the  *)
(* events_default read (0 when missing) is greater than the level;         *)
(* otherwise the key is as it was read.  It is never greater than the one  *)
(* read.                                                                   *)
C5_DefaultLowering ==
    \A id \in Attempts :
        LET a == attempts[id]
            d == EventsDefault(a.read)
            t == call_permission_level
        IN  (a.patched /\ a.pc # "NOOP") =>
                /\ IF also_set_events_default /\ d > t
                   THEN /\ "events_default" \in DOMAIN a.content
                        /\ a.content.events_default = t
                   ELSE /\ ("events_default" \in DOMAIN a.content)
                              = ("events_default" \in DOMAIN a.read)
                        /\ EventsDefault(a.content) = d
                /\ EventsDefault(a.content) <= d

C5_Witness ==
    \E id \in Attempts :
        /\ attempts[id].landed = 1
        /\ EventsDefault(attempts[id].read) = 50
        /\ call_permission_level = 0
        /\ also_set_events_default
        /\ room_state = [k \in {PowerLevels} |-> attempts[id].content]
        /\ attempts[id].content.events_default = 0

\* the event is a room creation that the enabled module does not exclude
Qualifying(h) ==
    /\ h.event.type = Create
    /\ enable_auto_call_permissions
    /\ h.event.room_type \notin ExcludedRoomTypes

\* the users of a content with power at or above the admin threshold
Admins(content) ==
    LET users == Get(content, "users", <<>>)
    IN  {users[i][1] : i \in {j \in 1..Len(users) : users[j][2] >= AdminPower}}

(* C6: exclusion.  With the module enabled, a room creation handed to the  *)
(* callback (which completes without raising) is dropped, that is starts   *)
(* no attempt, if and only if its declared room type is in                 *)
(* excluded_room_types, whatever is_direct says; every attempt comes from  *)
(* a creation of a non-excluded type, and as long as only excluded         *)
(* creations have been handled nothing is scheduled and the room's power   *)
(* levels are as the host made them.                                       *)
C6_Exclusion ==
    /\ \A i \in Handled :
          LET h == handled[i] IN
          /\ (h.event.type = Create /\ enable_auto_call_permissions /\ ~h.fault)
                => ((h.attempt = 0) <=> (h.event.room_type \in ExcludedRoomTypes))
          /\ h.event.room_type \in ExcludedRoomTypes => h.attempt = 0
    /\ \A id \in Attempts :
          \E i \in Handled :
              /\ handled[i].attempt = id
              /\ handled[i].event.room_type \notin ExcludedRoomTypes
    /\ (\A i \in Handled : handled[i].event.room_type \in ExcludedRoomTypes)
          => /\ attempts = <<>>
             /\ reactorCalls = {}
             /\ PowerLevelsPresent => room_state[PowerLevels] \in InitialMaps

C6_Witness ==
    \E i, j \in Handled :
        /\ handled[i].event.type = Create
        /\ handled[i].event.room_type \in ExcludedRoomTypes
        /\ handled[i].event.is_direct
        /\ handled[i].attempt = 0
        /\ handled[j].event.is_direct
        /\ handled[j].attempt # 0
        /\ attempts[handled[j].attempt].landed = 1

(* C7: one attempt per qualifying event.  An event handed to the callback  *)
(* (which completes without raising) starts an attempt if and only if it   *)
(* is a room creation, the module is enabled and the room is not excluded; *)
(* the attempts are exactly those started, one each; and at any time an    *)
(* attempt has at most one delayed call pending: exactly one while it      *)
(* waits for readiness or for verification, none otherwise.                *)
C7_OneAttempt ==
    /\ \A i \in Handled :
          LET h == handled[i] IN
          /\ ~h.fault => ((h.attempt # 0) <=> Qualifying(h))
          /\ h.attempt # 0 =>
                h.attempt = Cardinality({j \in 1..i : handled[j].attempt # 0})
    /\ Len(attempts) = Cardinality({i \in Handled : handled[i].attempt # 0})
    /\ \A c \in reactorCalls : c.id \in Attempts
    /\ \A id \in Attempts :
          /\ Cardinality(CallsOf(id)) <= 1
          /\ (CallsOf(id) # {})
                <=> (attempts[id].pc \in {"WAITING_READY", "VERIFYING"})

C7_Witness ==
    /\ Len(attempts) = 2
    /\ \E i \in Handled : handled[i].attempt = 2
    /\ attempts[1].attempt >= 2
    /\ Cardinality(CallsOf(1)) = 1
    /\ attempts[2].pc = "VERIFYING"
    /\ Cardinality(CallsOf(2)) = 1

(* C8: the sender of the write.  When the users of the map read hold a     *)
(* principal with power >= 50, the sender handed to the writer is one of   *)
(* those principals; when they hold none it is the room's creator.         *)
C8_AdminSender ==
    \A id \in Attempts :
        LET a == attempts[id] IN
        (a.patched /\ a.pc # "NOOP") =>
            /\ a.sender # None
            /\ IF Admins(a.read) # {} THEN a.sender \in Admins(a.read)
               ELSE a.sender = a.creator

C8_Witness ==
    \E id \in Attempts :
        /\ attempts[id].landed = 1
        /\ Get(attempts[id].read, "users", <<>>)
              = << <<"@B", 10>>, <<"@C", 50>>, <<"@A", 100>> >>
        /\ attempts[id].sender \in {"@A", "@C"}

(* C9: lowering a default of 50 to 0.  When also_set_events_default is on  *)
(* and the events_default read is above the level, the attempt does not    *)
(* end NOOP: the map it hands to the writer has an entry equal to the      *)
(* level for every call event type and events_default equal to the level,  *)
(* at most one write lands, exactly one has landed once verification is    *)
(* scheduled, and a verification that reads the power levels finds every   *)
(* message type of the checklist at the level.                             *)
C9_LowerAndVerify ==
    \A id \in Attempts :
        LET a == attempts[id] IN
        (a.patched /\ also_set_events_default
                   /\ EventsDefault(a.read) > call_permission_level) =>
            /\ a.pc # "NOOP"
            /\ AllCallExplicit(a.content, call_permission_level)
            /\ "events_default" \in DOMAIN a.content
            /\ a.content.events_default = call_permission_level
            /\ a.landed <= 1
            /\ a.pc \in {"VERIFYING", "DONE"} => a.landed = 1
            /\ a.pc = "DONE" => a.verify \in {"ok", "error", "no_power_levels"}

C9_Witness ==
    \E id \in Attempts :
        /\ also_set_events_default
        /\ call_permission_level = 0
        /\ EventsDefault(attempts[id].read) = 50
        /\ attempts[id].landed = 1
        /\ attempts[id].pc = "DONE"
        /\ attempts[id].verify = "ok"

(* C10: the callback never blocks the host.  For every event handed to it, *)
(* whether or not something raised inside it, the callback returns         *)
(* (True, None) and lets no exception out; an exception in a deferred step *)
(* (a readiness poll, the patch, the verification) ends that step with a   *)
(* log entry, and a failed write ends in FAILED after the fallback.        *)
C10_NeverBlocks ==
    /\ \A i \in Handled :
          /\ handled[i].verdict = <<TRUE, None>>
          /\ ~handled[i].raised
    /\ \A id \in Attempts :
          LET a == attempts[id] IN
          /\ a.pc \in {"WAITING_READY", "PATCHING", "SENDING", "FALLBACK",
                       "VERIFYING", "FAILED", "NOOP", "DONE"}
          /\ a.outcome \in {"retry_error", "setup_error", "send_failed"}
                => (a.pc = "FAILED" /\ CallsOf(id) = {})
          /\ a.verify = "error" => (a.pc = "DONE" /\ CallsOf(id) = {})

C10_Witness ==
    /\ \E i \in Handled :
          /\ handled[i].fault
          /\ handled[i].verdict = <<TRUE, None>>
    /\ \E id \in Attempts : attempts[id].outcome = "setup_error"


----------------------------------------------------------------------------
\* the attempts that have landed a write
Landers == {id \in Attempts : attempts[id].landed > 0}

\* the replacement map of a patched attempt is complete: it is the patch
\* of the whole map the attempt read
CompleteReplacement(a) ==
    /\ a.patched
    /\ a.content = NewPowerLevels(a.read, call_permission_level,
                                  also_set_events_default)

\* the room's map is one the host created, or the complete replacement map
\* of an attempt whose write landed
C11_OriginalOrReplacement ==
    PowerLevelsPresent =>
        \/ room_state[PowerLevels] \in InitialMaps
        \/ \E id \in Landers :
              /\ CompleteReplacement(attempts[id])
              /\ room_state[PowerLevels] = attempts[id].content

\* a FAILED attempt has landed no write
C11_FailedLandedNothing ==
    \A id \in Attempts :
        LET a == attempts[id] IN
        a.pc = "FAILED" =>
            /\ a.landed = 0
            /\ \A i \in 1..Len(a.writeLog) : ~a.writeLog[i].ok

\* a step that changes the map of an existing room is the landing of one
\* attempt's write: the map becomes that attempt's replacement map and the
\* attempt goes on to VERIFYING, not to FAILED
C11_OnlyLandingChangesMap ==
    (/\ PowerLevelsPresent /\ PowerLevelsPresent'
     /\ room_state' # room_state)
    => \E id \in Attempts :
          /\ attempts[id].pc \in {"SENDING", "FALLBACK"}
          /\ attempts'[id].landed = attempts[id].landed + 1
          /\ attempts'[id].pc = "VERIFYING"
          /\ room_state'[PowerLevels] = attempts[id].content

----------------------------------------------------------------------------
\* the fields two write calls of one attempt have to share
SameRequest(c, d) ==
    /\ c.type = d.type
    /\ c.state_key = d.state_key
    /\ c.sender = d.sender
    /\ c.content = d.content

(* C12: an attempt makes at most two write calls, the primary first; the   *)
(* fallback is made once and only after the primary failed, with the same  *)
(* type, state key, sender and content, for the attempt's one room; when   *)
(* both fail the attempt is FAILED with send_failed, has landed nothing,   *)
(* has no delayed call pending (no verification, no readiness poll) and    *)
(* has made no third call.                                                 *)
C12_FallbackOnce ==
    \A id \in Attempts :
        LET a == attempts[id]
            log == a.writeLog
        IN
        /\ Len(log) <= 2
        /\ Len(log) = a.sendCalls
        /\ Len(log) >= 1 =>
              /\ log[1].call.path = "primary"
              /\ log[1].call.type = PowerLevels
              /\ log[1].call.state_key = ""
              /\ log[1].call.sender = a.sender
              /\ log[1].call.content = a.content
        /\ Len(log) = 2 =>
              /\ log[2].call.path = "fallback"
              /\ ~log[1].ok
              /\ SameRequest(log[1].call, log[2].call)
        /\ a.pc = "FALLBACK" <=> (Len(log) = 1 /\ ~log[1].ok)
        /\ (Len(log) = 2 /\ ~log[2].ok) <=> a.outcome = "send_failed"
        /\ a.outcome = "send_failed" =>
              /\ a.pc = "FAILED"
              /\ a.landed = 0
              /\ a.verify = None
              /\ CallsOf(id) = {}
              /\ a.pollLog[Len(a.pollLog)] = "present"

\* both write calls of an attempt failed, the sender being an admin other
\* than the creator
C12_Witness ==
    \E id \in Attempts :
        LET a == attempts[id] IN
        /\ a.outcome = "send_failed"
        /\ Len(a.writeLog) = 2
        /\ a.sender # a.creator
        /\ a.writeLog[2].call.sender = a.sender

----------------------------------------------------------------------------
\* a step of the verification of attempt id
VerifyStep(id) ==
    /\ attempts[id].pc = "VERIFYING"
    /\ attempts'[id].pc # "VERIFYING"

\* the verification is pending exactly while a landed attempt is VERIFYING,
\* no attempt lands more than one write, and an attempt is DONE only with
\* its verification's result
C13_VerifyOnlyAfterSuccess ==
    \A id \in Attempts :
        LET a == attempts[id]
            verifies == {c \in CallsOf(id) : c.fn = "verify"}
        IN
        /\ a.landed <= 1
        /\ Cardinality(verifies) = IF a.pc = "VERIFYING" THEN 1 ELSE 0
        /\ a.pc \in {"VERIFYING", "DONE"} <=> a.landed = 1
        /\ a.landed = 1 => a.writeLog[Len(a.writeLog)].ok
        /\ a.pc = "DONE" <=> a.verify # None
        /\ a.pc = "DONE" => CallsOf(id) = {}

\* the verification's one step writes nothing, schedules nothing, and ends
\* the attempt at DONE; a DONE attempt takes no step
C13_VerifyObserves ==
    \A id \in Attempts :
        /\ VerifyStep(id) =>
              /\ room_state' = room_state
              /\ reactorCalls' \subseteq reactorCalls
              /\ CallsOf(id)' = {}
              /\ attempts'[id].pc = "DONE"
              /\ attempts'[id].verify \in
                    {"ok", "mismatch", "error", "no_power_levels"}
              /\ attempts'[id].writeLog = attempts[id].writeLog
              /\ attempts'[id].landed = attempts[id].landed
        /\ attempts[id].pc = "DONE" => attempts'[id] = attempts[id]

(* C13: the verification is scheduled only once a write of the attempt has *)
(* landed, runs once, and whatever it reads (levels as wanted, a           *)
(* mismatch, no power levels, an exception of the read) it makes no write  *)
(* call, schedules nothing and ends the attempt at DONE, where the attempt *)
(* stays; no attempt lands more than one write.                            *)
C13_VerificationObservesOnly ==
    /\ []C13_VerifyOnlyAfterSuccess
    /\ [][C13_VerifyObserves]_vars

\* verifications that ended on an exception and on a purged room
C13_Witness ==
    /\ \E id \in Attempts :
          attempts[id].pc = "DONE" /\ attempts[id].verify = "error"
    /\ \E id \in Attempts :
          attempts[id].pc = "DONE" /\ attempts[id].verify = "no_power_levels"

----------------------------------------------------------------------------
(* Termination *)

\* the reactor fires every delayed call and every awaited host call returns
\* or raises: no step of an attempt stays enabled forever without being
\* taken
Fairness ==
    /\ WF_vars(SetupCallPermissionsWithRetry)
    /\ WF_vars(SetupCallPermissions)
    /\ WF_vars(SendStateEvent)
    /\ WF_vars(SendStateEventFallback)
    /\ WF_vars(VerifyPermissions)

\* the events handled in the behaviours checked for termination
MaxLiveEvents == 1

\* the callback, for the first MaxLiveEvents events
CheckEventAllowedLive == Len(handled) < MaxLiveEvents /\ CheckEventAllowed

NextLive ==
    \/ HostCreatesPowerLevels
    \/ HostPurgesRoom
    \/ CheckEventAllowedLive
    \/ SetupCallPermissionsWithRetry
    \/ SetupCallPermissions
    \/ SendStateEvent
    \/ SendStateEventFallback
    \/ VerifyPermissions

LiveSpec == Init /\ [][NextLive]_vars /\ Fairness

\* the steps an attempt can still take at most: the polls left, then the
\* patch, the two write calls and the verification
StepsLeft(a) ==
    IF a.pc = "WAITING_READY" THEN 4 + (MaxAttempts - a.attempt)
    ELSE IF a.pc = "PATCHING" THEN 4
    ELSE IF a.pc = "SENDING" THEN 3
    ELSE IF a.pc = "FALLBACK" THEN 2
    ELSE IF a.pc = "VERIFYING" THEN 1
    ELSE 0

\* every attempt gets to a terminal state
C14_Terminates ==
    \A id \in 1..MaxLiveEvents :
        (id \in Attempts) ~> (id \in Attempts /\ Terminal(attempts[id]))

\* an attempt that is not terminal has its next step at hand: its delayed
\* call is pending, or it is inside an awaited host call
C14_NextStepAtHand ==
    \A id \in Attempts :
        LET a == attempts[id] IN
        /\ a.pc = "WAITING_READY" =>
              \E c \in CallsOf(id) : c.fn = "retry" /\ c.attempt = a.attempt
        /\ a.pc = "VERIFYING" => \E c \in CallsOf(id) : c.fn = "verify"
        /\ Terminal(a) => CallsOf(id) = {}
        /\ a.attempt \in 0..(MaxAttempts - 1)

\* every step of an attempt brings it nearer to its end, and a terminal
\* attempt takes no step and gets no delayed call
C14_StepsShrink ==
    \A id \in Attempts :
        /\ attempts'[id] # attempts[id] =>
              /\ ~Terminal(attempts[id])
              /\ StepsLeft(attempts'[id]) < StepsLeft(attempts[id])
        /\ Terminal(attempts[id]) =>
              /\ attempts'[id] = attempts[id]
              /\ CallsOf(id)' = {}

(* C14: when every delayed call is fired and every awaited host call       *)
(* returns or raises, every attempt that was started reaches FAILED, NOOP  *)
(* or DONE (an event that starts no attempt is dropped at once), whatever  *)
(* the reads and writes give; each step of an attempt lowers the number of *)
(* steps it has left, and a terminal attempt takes no further step and has *)
(* nothing scheduled.                                                      *)
C14_Termination ==
    /\ C14_Terminates
    /\ []C14_NextStepAtHand
    /\ [][C14_StepsShrink]_vars

\* an attempt that found the power levels at its sixth poll has ended
C14_Witness ==
    \E id \in Attempts :
        /\ Len(attempts[id].pollLog) = MaxAttempts
        /\ attempts[id].pc = "DONE"
        /\ CallsOf(id) = {}

----------------------------------------------------------------------------
\* the attempt has left the readiness wait for the patch
PastReadiness(a) ==
    a.pc \in {"PATCHING", "SENDING", "FALLBACK", "VERIFYING", "NOOP", "DONE"}
        \/ a.setupRead # None

\* the retry calls pending for attempt id
RetryCallsOf(id) == {c \in CallsOf(id) : c.fn = "retry"}

\* an attempt past the readiness wait got there by its own last poll, the
\* only one that found the power levels, and has no poll pending; the
\* counter is the number of reschedules and at most 5
C15_ReadyBeforePatching ==
    \A id \in Attempts :
        LET a == attempts[id]
            n == Len(a.pollLog)
        IN
        /\ a.attempt \in 0..(MaxAttempts - 1)
        /\ a.attempt = Len(a.delays) - 1
        /\ \A c \in RetryCallsOf(id) : c.attempt = a.attempt
        /\ PastReadiness(a) =>
              /\ n >= 1
              /\ a.pollLog[n] = "present"
              /\ \A i \in 1..(n - 1) : a.pollLog[i] = "absent"
              /\ RetryCallsOf(id) = {}

\* past the readiness wait there is no way back and no further poll; the
\* counter only moves by one, together with one new delayed poll
C15_NoWayBack ==
    \A id \in Attempts :
        LET a == attempts[id]
            b == attempts'[id]
        IN
        /\ PastReadiness(a) =>
              /\ b.pc # "WAITING_READY"
              /\ b.pollLog = a.pollLog
              /\ b.attempt = a.attempt
              /\ RetryCallsOf(id)' = {}
        /\ b.attempt \in {a.attempt, a.attempt + 1}
        /\ b.attempt = a.attempt + 1 <=>
              /\ Len(b.delays) = Len(a.delays) + 1
              /\ RetryCallsOf(id)' # RetryCallsOf(id)
              /\ \E c \in RetryCallsOf(id)' : c.attempt = a.attempt + 1
        /\ b.pc = "PATCHING" /\ a.pc # "PATCHING" =>
              /\ a.pc = "WAITING_READY"
              /\ b.pollLog = Append(a.pollLog, "present")

(* C15: an attempt gets to PATCHING only by a readiness poll of its own    *)
(* that found the power levels; from then on it never is WAITING_READY     *)
(* again, makes no further poll and has none scheduled; the attempt        *)
(* counter goes up by exactly 1 with each rescheduled poll and stays       *)
(* within 0..5.                                                            *)
C15_Ordering ==
    /\ []C15_ReadyBeforePatching
    /\ [][C15_NoWayBack]_vars

\* an attempt that found the power levels at its sixth poll, counter 5, and
\* went on to land its write
C15_Witness ==
    \E id \in Attempts :
        /\ attempts[id].attempt = MaxAttempts - 1
        /\ Len(attempts[id].pollLog) = MaxAttempts
        /\ attempts[id].pollLog[MaxAttempts] = "present"
        /\ attempts[id].landed = 1

----------------------------------------------------------------------------
\* attempt id makes the step of _setup_call_permissions that follows its
\* read: the patch is computed
PatchStep(id) ==
    /\ attempts[id].pc = "PATCHING"
    /\ attempts'[id] # attempts[id]

\* the step that computes the patch leaves the host's power levels, the
\* events mapping inside them included, as they were read
C16_PatchKeepsHostMap ==
    \A id \in Attempts :
        PatchStep(id) =>
            /\ room_state' = room_state
            /\ attempts'[id].patched =>
                  /\ attempts'[id].read = room_state[PowerLevels]
                  /\ room_state'[PowerLevels] = attempts'[id].read
                  /\ EventsOf(room_state'[PowerLevels]) =
                        EventsOf(attempts'[id].read)

(* C16: computing the patch never changes the power-levels content the     *)
(* host handed out: after the patch step, whatever its outcome, the host's *)
(* content, with its nested events mapping, equals what was read; the      *)
(* changes are in the attempt's own copy.                                  *)
C16_NoMutationOfHostMap == [][C16_PatchKeepsHostMap]_vars

\* a patch with changes has been computed and the host's map is still the
\* one that was read
C16_Witness ==
    \E id \in Attempts :
        /\ attempts[id].pc = "SENDING"
        /\ attempts[id].changes # {}
        /\ PowerLevelsPresent
        /\ room_state[PowerLevels] = attempts[id].read
        /\ EventsOf(attempts[id].content) # EventsOf(attempts[id].read)

----------------------------------------------------------------------------
\* the fields of the content the patch may touch
PatchedFields == {"events", "events_default"}

(* C17: the map an attempt computes agrees with the map it read on every   *)
(* field other than events and events_default (the same fields, the same   *)
(* values) and, inside events, on every key that is not a call event type; *)
(* every call event type has an entry in the computed events, equal to the *)
(* target level; events_default is as read, or the target level when       *)
(* lowering is on and it was above the target.                             *)
C17_PatchFrame ==
    \A id \in Attempts :
        LET a == attempts[id]
            level == call_permission_level
            old == EventsOf(a.read)
        IN
        a.patched =>
            /\ DOMAIN a.content \ PatchedFields = DOMAIN a.read \ PatchedFields
            /\ \A k \in DOMAIN a.read \ PatchedFields : a.content[k] = a.read[k]
            /\ "events" \in DOMAIN a.content
            /\ DOMAIN a.content.events = DOMAIN old \cup CallEventSet
            /\ \A k \in DOMAIN old \ CallEventSet : a.content.events[k] = old[k]
            /\ \A k \in CallEventSet : a.content.events[k] = level
            /\ \/ /\ "events_default" \in DOMAIN a.content
                  /\ "events_default" \in DOMAIN a.read
                  /\ a.content.events_default = a.read.events_default
               \/ /\ "events_default" \notin DOMAIN a.content
                  /\ "events_default" \notin DOMAIN a.read
               \/ /\ also_set_events_default
                  /\ EventsDefault(a.read) > level
                  /\ "events_default" \in DOMAIN a.content
                  /\ a.content.events_default = level
            /\ a.writeLog # <<>> => a.writeLog[1].call.content = a.content

\* a write was called with a map that keeps a non-call entry of events and
\* the users of the map that was read
C17_Witness ==
    \E id \in Attempts :
        LET a == attempts[id] IN
        /\ a.patched
        /\ a.writeLog # <<>>
        /\ "m.room.name" \in DOMAIN EventsOf(a.read)
        /\ a.writeLog[1].call.content.events["m.room.name"] = 50
        /\ "users" \in DOMAIN a.read
        /\ a.content # a.read

----------------------------------------------------------------------------
(* C18: an exception of the state reader in a readiness poll is not taken  *)
(* for "not ready": that poll is the attempt's last, the attempt is FAILED *)
(* with nothing scheduled, no patch and no write call, however few polls   *)
(* it has made; every poll that was followed by another one was a read     *)
(* that succeeded and showed no power levels.                              *)
C18_FaultEndsAttempt ==
    \A id \in Attempts :
        LET a == attempts[id]
            n == Len(a.pollLog)
        IN
        /\ \A i \in 1..(n - 1) : a.pollLog[i] = "absent"
        /\ Len(a.delays) > 1 => a.pollLog[Len(a.delays) - 1] = "absent"
        /\ a.outcome = "retry_error" <=> (n >= 1 /\ a.pollLog[n] = "fault")
        /\ (n >= 1 /\ a.pollLog[n] = "fault") =>
              /\ a.pc = "FAILED"
              /\ CallsOf(id) = {}
              /\ Len(a.delays) = n
              /\ a.attempt = n - 1
              /\ a.setupRead = None
              /\ ~a.patched
              /\ a.writeLog = <<>>
              /\ a.landed = 0

\* an exception at the second of the six polls
C18_Witness ==
    \E id \in Attempts :
        /\ attempts[id].pollLog = <<"absent", "fault">>
        /\ attempts[id].pc = "FAILED"
        /\ attempts[id].attempt < MaxAttempts - 1

----------------------------------------------------------------------------
(* C19: _setup_call_permissions reads the room state again; when the poll  *)
(* found the power levels and this second read does not, the attempt is    *)
(* FAILED with no patch, no write call and nothing scheduled, however many *)
(* polls it had left; every attempt past PATCHING has made that read.      *)
C19_SecondReadAbsent ==
    \A id \in Attempts :
        LET a == attempts[id]
            n == Len(a.pollLog)
        IN
        /\ a.pc \in {"SENDING", "FALLBACK", "VERIFYING", "NOOP", "DONE"} =>
              a.setupRead = "present"
        /\ a.setupRead # None => (n >= 1 /\ a.pollLog[n] = "present")
        /\ a.setupRead = "absent" <=> a.outcome = "no_power_levels"
        /\ a.setupRead = "absent" =>
              /\ a.pc = "FAILED"
              /\ ~a.patched
              /\ a.writeLog = <<>>
              /\ a.landed = 0
              /\ CallsOf(id) = {}
              /\ Len(a.delays) = n

\* the room went away between the first poll and the second read
C19_Witness ==
    \E id \in Attempts :
        /\ attempts[id].pollLog = <<"present">>
        /\ attempts[id].attempt = 0
        /\ attempts[id].setupRead = "absent"
        /\ attempts[id].pc = "FAILED"

----------------------------------------------------------------------------
(* Another writer *)

\* the events handled in the behaviours with a user who writes
MaxConcEvents == 1

\* the power levels after a user with the power to do so has set
\* users_default to 50
UserChanged(content) ==
    [k \in DOMAIN content \cup {"users_default"} |->
        IF k = "users_default" THEN 50 ELSE content[k]]

\* A user of the room sends a power-levels event of their own: the host's
\* writer serves every sender, not this module alone.
UserWritesPowerLevels ==
    /\ PowerLevelsPresent
    /\ UserChanged(room_state[PowerLevels]) # room_state[PowerLevels]
    /\ room_state' = [room_state EXCEPT ![PowerLevels] = UserChanged(@)]
    /\ UNCHANGED <<config, purged, reactorCalls, attempts, handled>>

\* the callback, for the first MaxConcEvents events
CheckEventAllowedConc == Len(handled) < MaxConcEvents /\ CheckEventAllowed

NextConc ==
    \/ HostCreatesPowerLevels
    \/ HostPurgesRoom
    \/ UserWritesPowerLevels
    \/ CheckEventAllowedConc
    \/ SetupCallPermissionsWithRetry
    \/ SetupCallPermissions
    \/ SendStateEvent
    \/ SendStateEventFallback
    \/ VerifyPermissions

ConcSpec == Init /\ [][NextConc]_vars

\* after differs from before in call event levels and events_default only
OnlyCallLevelsChanged(before, after) ==
    /\ DOMAIN after \ PatchedFields = DOMAIN before \ PatchedFields
    /\ \A k \in DOMAIN before \ PatchedFields : after[k] = before[k]
    /\ DOMAIN EventsOf(after) \ CallEventSet =
          DOMAIN EventsOf(before) \ CallEventSet
    /\ \A k \in DOMAIN EventsOf(before) \ CallEventSet :
          EventsOf(after)[k] = EventsOf(before)[k]

\* the step in which a write of attempt id lands
LandingStep(id) == attempts'[id].landed = attempts[id].landed + 1

(* C20: no update is lost: whenever a write of an attempt lands, the       *)
(* room's map after the write is the map just before the write with only   *)
(* call event levels and events_default changed, so that what another      *)
(* writer changed since the attempt's read is still there.                 *)
C20_NoLostUpdate ==
    [][\A id \in Attempts :
          LandingStep(id) =>
              OnlyCallLevelsChanged(room_state[PowerLevels],
                                    room_state'[PowerLevels])]_vars

====
